---- MODULE Spec2Model ----
(***************************************************************************)
(* Model of the Nessie MCP server (src/src/index.ts).                      *)
(*                                                                         *)
(* Two specifications share the variables:                                 *)
(*   Spec      the HTTP surface: GET /sse, the close of a stream, and      *)
(*             POST /messages, with the one protocol engine (mcpServer)    *)
(*             that every stream is connected to;                          *)
(*   ToolSpec  the two registered tool handlers and callNessie, driven     *)
(*             directly with every upstream outcome, for a client whose    *)
(*             stream is open and may close.  Each handler has one         *)
(*             suspension point (await callNessie), so an invocation is    *)
(*             two steps: up to the await, and the continuation.           *)
(*                                                                         *)
(* JavaScript values are records of one shape; a text is the sequence of   *)
(* the pieces a template literal concatenates.                             *)
(***************************************************************************)
EXTENDS Integers, Sequences, FiniteSets, TLC

\* ---------------------------------------------------------------- bounds
MaxAccounts == 2      \* longest account array the upstream returns
MaxCalls    == 2      \* tool invocations per behaviour
MaxSessions == 2      \* GET /sse requests per behaviour
MaxPosts    == 2      \* POST /messages requests per behaviour
NumClients  == 2      \* distinct clients

VARIABLES
  calls,            \* ToolSpec: the handler invocations, in order of receipt
  returned,         \* ToolSpec: ids of the invocations, in order of settling
  upstreamRequests, \* ToolSpec: the axios requests issued so far
  sessions,         \* Spec: one record per GET /sse, in order of arrival
  engineTransport,  \* Spec: the transport slot of mcpServer (0 = none)
  connectGuard,     \* Spec: does connect() reject on an engine already bound
  streams,          \* Spec: events written on each stream
  posts,            \* Spec: the POST /messages requests handled so far
  engineInbox,      \* Spec: messages handed to the protocol engine
  clock             \* the instant and the server's time zone of the behaviour

vars == <<calls, returned, upstreamRequests, sessions, engineTransport,
          connectGuard, streams, posts, engineInbox, clock>>

toolVars == <<calls, returned, upstreamRequests, clock>>
httpVars == <<sessions, engineTransport, connectGuard, streams, posts,
              engineInbox>>

\* ------------------------------------------------------ JavaScript values
\* A property value (data.error, data.message, error.response?.data):
\* undefined, a string, or an object given by its JSON text.
Undef     == [t |-> "undefined", s |-> ""]
PStr(x)   == [t |-> "string", s |-> x]
PObj(j)   == [t |-> "object", s |-> j]

\* JavaScript truthiness.
Truthy(p) == CASE p.t = "undefined" -> FALSE
               [] p.t = "null"      -> FALSE
               [] p.t = "string"    -> p.s # ""
               [] OTHER             -> TRUE

\* JSON.stringify of a property value.
JSONstringify(p) == CASE p.t = "string" -> "\"" \o p.s \o "\""
                      [] p.t = "object" -> p.s
                      [] OTHER          -> "undefined"

\* String conversion inside a template literal, ${p}.
TemplateString(p) == CASE p.t = "string" -> p.s
                       [] p.t = "object" -> "[object Object]"
                       [] OTHER          -> "undefined"

\* A response body / callNessie value.
JNull       == [t |-> "null",   s |-> "", items |-> <<>>, error |-> Undef, message |-> Undef]
JString(x)  == [t |-> "string", s |-> x,  items |-> <<>>, error |-> Undef, message |-> Undef]
JArray(a)   == [t |-> "array",  s |-> "", items |-> a,    error |-> Undef, message |-> Undef]
JObject(e, m) == [t |-> "object", s |-> "", items |-> <<>>, error |-> e, message |-> m]

\* The k-th account record of the upstream.
Account(k) == [nickname |-> "Acct" \o ToString(k),
               type     |-> IF k % 2 = 1 THEN "checking" ELSE "savings",
               balance  |-> 500 * k,
               _id      |-> "x" \o ToString(k)]

AccountArray(n) == [k \in 1..n |-> Account(k)]

\* ------------------------------------------------------ upstream outcomes
\* What the axios call of callNessie can do: resolve with a 2xx response
\* (data = the parsed body), reject with a response (non-2xx; errdata =
\* error.response.data) or reject without one (connection error, timeout).
Bodies2xx ==
  { JArray(AccountArray(n)) : n \in 0..MaxAccounts } \cup
  { JNull,                                   \* body "null"
    JString(""),                             \* empty body
    JObject(Undef, PStr("ok")),              \* {message:"ok"}
    JObject(Undef, Undef),                   \* {}
    JObject(PStr("none"), PStr("ok")) }      \* {error:"none",message:"ok"}

ErrorBodies == { PObj("{\"code\":404,\"message\":\"Invalid ID\"}"),
                 PStr("") }                  \* non-2xx without a body

StatusMessage == "Request failed with status code 404"

\* error.message of a rejection without a response; Node reports an
\* AggregateError of a refused connection with an empty message.
TransportMessages == { "Network Error", "" }

Outcomes ==
  { [kind |-> "2xx", data |-> d, errdata |-> Undef, message |-> ""] :
      d \in Bodies2xx } \cup
  { [kind |-> "non2xx", data |-> JNull, errdata |-> b, message |-> StatusMessage] :
      b \in ErrorBodies } \cup
  { [kind |-> "transport", data |-> JNull, errdata |-> Undef, message |-> m] :
      m \in TransportMessages }

Failed(o) == o.kind # "2xx"

\* ------------------------------------------------------------ callNessie
\* The settled value of the async function: threw = the promise rejected.
callNessieNoCatch(o) ==
  IF o.kind = "2xx"
    THEN [threw |-> FALSE, value |-> o.data]
    ELSE [threw |-> TRUE,  value |-> JNull]

callNessie(o) ==
  IF o.kind = "2xx"
    THEN [threw |-> FALSE, value |-> o.data]
    ELSE [threw |-> FALSE,
          value |-> JObject(IF Truthy(o.errdata) THEN o.errdata
                                                 ELSE PStr(o.message),
                            Undef)]

\* ------------------------------------------------------------- envelopes
Envelope(text) == << [type |-> "text", text |-> text] >>

NoResult == << >>

RECURSIVE Join(_, _)
\* Array.prototype.join: the lines with sep between them, "" for no lines.
Join(lines, sep) ==
  IF Len(lines) = 0 THEN << >>
  ELSE IF Len(lines) = 1 THEN << lines[1] >>
  ELSE << lines[1], sep >> \o Join(Tail(lines), sep)

\* `- ${acc.nickname} (${acc.type}): $${acc.balance} (ID: ${acc._id})`
FormatAccount(acc) ==
  "- " \o acc.nickname \o " (" \o acc.type \o "): $" \o ToString(acc.balance)
       \o " (ID: " \o acc._id \o ")"

\* The handlers after their await: the settled [pc, content] of the
\* invocation, pc = "returned" with an envelope or "threw".
Threw == [pc |-> "threw", content |-> NoResult]
Returned(text) == [pc |-> "returned", content |-> Envelope(text)]

get_customer_accounts(args, r) ==
  IF r.threw THEN Threw
  ELSE LET data == r.value IN
    IF data.t = "null" THEN Threw                 \* data.error of null
    ELSE IF Truthy(data.error)
      THEN Returned(<< "Error:", " ", JSONstringify(data.error) >>)
    ELSE IF data.t # "array" THEN Threw           \* data.map is not a function
    ELSE Returned(<< "Accounts found:", "\n" >> \o
                  Join([k \in 1..Len(data.items) |-> FormatAccount(data.items[k])],
                       "\n"))

transfer_money(args, r) ==
  IF r.threw THEN Threw
  ELSE LET data == r.value IN
    IF data.t = "null" THEN Threw                 \* data.error of null
    ELSE IF Truthy(data.error)
      THEN Returned(<< "Transfer", " ", "Failed:", " ", JSONstringify(data.error) >>)
    ELSE Returned(<< "Transfer", " ", "Successful:", " ",
                     TemplateString(data.message), "\n",
                     "Transferred $" \o ToString(args.amount) \o " from "
                       \o args.payerId \o " to " \o args.payeeId \o "." >>)

\* ------------------------------------------------------------------ dates
\* Instants are whole hours since 1970-01-01T00:00Z; a time zone is its
\* offset from UTC in hours.
NewYear2025 == 20089 * 24       \* 2025-01-01T00:00Z, day 20089

Clocks == { [now |-> NewYear2025 + 2,  tz |-> 0 - 5],   \* local 2024-12-31 21:00
            [now |-> NewYear2025 + 12, tz |-> 0],
            [now |-> NewYear2025 - 1,  tz |-> 2] }      \* local 2025-01-01 01:00

Pad(n, w) == IF w = 4
               THEN (IF n < 10 THEN "000" ELSE IF n < 100 THEN "00"
                     ELSE IF n < 1000 THEN "0" ELSE "") \o ToString(n)
               ELSE (IF n < 10 THEN "0" ELSE "") \o ToString(n)

\* The calendar date of day number z (days since 1970-01-01), YYYY-MM-DD.
DateString(z) ==
  LET z1  == z + 719468
      era == z1 \div 146097
      doe == z1 - era * 146097
      yoe == (doe - doe \div 1460 + doe \div 36524 - doe \div 146096) \div 365
      doy == doe - (365 * yoe + yoe \div 4 - yoe \div 100)
      mp  == (5 * doy + 2) \div 153
      d   == doy - (153 * mp + 2) \div 5 + 1
      m   == IF mp < 10 THEN mp + 3 ELSE mp - 9
      y   == yoe + era * 400 + (IF m <= 2 THEN 1 ELSE 0)
  IN Pad(y, 4) \o "-" \o Pad(m, 2) \o "-" \o Pad(d, 2)

\* Date.prototype.toISOString: the UTC date and time, as the pieces around
\* the "T"; split("T")[0] is the first piece.
toISOString(now) ==
  << DateString(now \div 24), "T", Pad(now % 24, 2) \o ":00:00.000Z" >>

\* The date on the server's own calendar.
LocalDate(c) == DateString((c.now + c.tz) \div 24)

NoData == [medium |-> "", payee_id |-> "", amount |-> 0, transaction_date |-> ""]

\* The request body of transfer_money.
transferPayload(payeeId, amount, c) ==
  [medium |-> "balance", payee_id |-> payeeId, amount |-> amount,
   transaction_date |-> toISOString(c.now)[1]]

\* ------------------------------------------------------- tool invocations
CustomerIds == { "abc123" }
AccountIds  == { "p1", "p2" }
PayerIds    == { "p1" }
Amounts     == { 50 }

NoOutcome == [kind |-> "pending", data |-> JNull, errdata |-> Undef, message |-> ""]

\* A request reaches a handler only from a client whose stream is open.
Connected == \E j \in 1..Len(sessions) : sessions[j].state = "Open"

ToolInit ==
  /\ calls = << >>
  /\ returned = << >>
  /\ upstreamRequests = << >>
  /\ sessions = << [sid |-> 1, client |-> 1, conn |-> 1, state |-> "Open"] >>
  /\ engineTransport = 1
  /\ connectGuard = FALSE
  /\ streams = << << [event |-> "endpoint", sid |-> 1] >> >>
  /\ posts = << >>
  /\ engineInbox = << >>
  /\ clock \in Clocks

\* The handler of get_customer_accounts up to its await: the GET is issued.
InvokeGetCustomerAccounts(customerId) ==
  /\ Len(calls) < MaxCalls
  /\ Connected
  /\ calls' = Append(calls,
       [tool |-> "get_customer_accounts",
        args |-> [customerId |-> customerId, payerId |-> "", payeeId |-> "", amount |-> 0],
        pc |-> "awaiting", outcome |-> NoOutcome, data |-> [threw |-> FALSE, value |-> JNull],
        content |-> NoResult])
  /\ upstreamRequests' = Append(upstreamRequests,
       [call |-> Len(calls) + 1, method |-> "GET",
        endpoint |-> "/customers/" \o customerId \o "/accounts",
        data |-> NoData])
  /\ UNCHANGED <<returned, httpVars, clock>>

\* The handler of transfer_money up to its await: the POST is issued.
InvokeTransferMoney(payerId, payeeId, amount) ==
  /\ Len(calls) < MaxCalls
  /\ Connected
  /\ calls' = Append(calls,
       [tool |-> "transfer_money",
        args |-> [customerId |-> "", payerId |-> payerId, payeeId |-> payeeId, amount |-> amount],
        pc |-> "awaiting", outcome |-> NoOutcome, data |-> [threw |-> FALSE, value |-> JNull],
        content |-> NoResult])
  /\ upstreamRequests' = Append(upstreamRequests,
       [call |-> Len(calls) + 1, method |-> "POST",
        endpoint |-> "/accounts/" \o payerId \o "/transfers",
        data |-> transferPayload(payeeId, amount, clock)])
  /\ UNCHANGED <<returned, httpVars, clock>>

\* A callNessie that tries a failed request once more before it returns.
UpstreamSettlesRetry(i, o) ==
  /\ i \in 1..Len(calls)
  /\ calls[i].pc = "awaiting"
  /\ IF Failed(o) /\ Cardinality({ k \in 1..Len(upstreamRequests) :
                                     upstreamRequests[k].call = i }) = 1
       THEN /\ upstreamRequests' = Append(upstreamRequests,
                  upstreamRequests[CHOOSE k \in 1..Len(upstreamRequests) :
                                     upstreamRequests[k].call = i])
            /\ UNCHANGED <<calls, returned, httpVars, clock>>
       ELSE /\ LET r == callNessie(o)
                   h == IF calls[i].tool = "get_customer_accounts"
                          THEN get_customer_accounts(calls[i].args, r)
                          ELSE transfer_money(calls[i].args, r)
               IN calls' = [calls EXCEPT ![i].outcome = o, ![i].data = r,
                                         ![i].pc = h.pc, ![i].content = h.content]
            /\ returned' = Append(returned, i)
            /\ UNCHANGED <<upstreamRequests, httpVars, clock>>

\* The axios promise of invocation i settles with outcome o: callNessie
\* returns and the handler runs to its end.
UpstreamSettles(i, o) ==
  /\ i \in 1..Len(calls)
  /\ calls[i].pc = "awaiting"
  /\ LET r == callNessie(o)
         h == IF calls[i].tool = "get_customer_accounts"
                THEN get_customer_accounts(calls[i].args, r)
                ELSE transfer_money(calls[i].args, r)
     IN calls' = [calls EXCEPT ![i].outcome = o, ![i].data = r,
                               ![i].pc = h.pc, ![i].content = h.content]
  /\ returned' = Append(returned, i)
  /\ UNCHANGED <<upstreamRequests, httpVars, clock>>

\* ----------------------------------------------------------- HTTP surface
Clients  == 1..NumClients

\* The tools registered with mcpServer.tool and their input schemas
\* (z.string(), z.number()): a field is valid when it is present and of the
\* schema's type.
RegisteredTools == { "get_customer_accounts", "transfer_money" }

PNum(x) == [t |-> "number", s |-> x]

ValidArguments(name, a) ==
  CASE name = "get_customer_accounts" -> a.customerId.t = "string"
    [] name = "transfer_money" ->
         a.payerId.t = "string" /\ a.payeeId.t = "string" /\ a.amount.t = "number"
    [] OTHER -> FALSE

NoArguments == [customerId |-> Undef, payerId |-> Undef, payeeId |-> Undef,
                amount |-> Undef]

ToolCall(name, a) == [method |-> "tools/call", name |-> name, arguments |-> a]

\* The bodies a client posts: tools/call requests with valid arguments,
\* with a customerId that is not a string, and for a name that is not
\* registered.
Messages ==
  { ToolCall("transfer_money", [NoArguments EXCEPT !.payerId = PStr("p1"),
                                                   !.payeeId = PStr("p2"),
                                                   !.amount = PNum("50")]),
    ToolCall("get_customer_accounts", [NoArguments EXCEPT !.customerId = PNum("42")]),
    ToolCall("no_such_tool", NoArguments) }

\* The session id of a new SSEServerTransport (a random UUID): a value no
\* earlier transport has.
ReusedSessionId(ss) ==
  IF \E j \in 1..Len(ss) : ss[j].state = "Closed"
    THEN ss[CHOOSE j \in 1..Len(ss) : ss[j].state = "Closed"].sid
    ELSE Len(ss) + 1

NewSessionId(ss) == Len(ss) + 1

IsOpen(sid) == \E j \in 1..Len(sessions) :
                 sessions[j].sid = sid /\ sessions[j].state = "Open"

SessionState(sid) ==
  IF IsOpen(sid) THEN "Open"
  ELSE IF \E j \in 1..Len(sessions) : sessions[j].sid = sid /\ sessions[j].state = "Closed"
    THEN "Closed"
  ELSE "Unknown"

Init ==
  /\ calls = << >>
  /\ returned = << >>
  /\ upstreamRequests = << >>
  /\ sessions = << >>
  /\ engineTransport = 0
  /\ connectGuard \in BOOLEAN
  /\ streams = << >>
  /\ posts = << >>
  /\ engineInbox = << >>
  /\ clock = [now |-> NewYear2025 + 12, tz |-> 0]

\* app.get("/sse"): a transport is made on the response of this connection
\* and the one mcpServer is connected to it.  connect() stores the transport
\* in the engine's single slot and starts the stream (the endpoint event
\* carries the session id); a build whose connect() guards the slot rejects
\* when the engine is already bound, and the stream is never started.
OpenSse(c) ==
  /\ Len(sessions) < MaxSessions
  /\ LET i   == Len(sessions) + 1
         sid == NewSessionId(sessions)
     IN IF connectGuard /\ engineTransport # 0
          THEN /\ sessions' = Append(sessions,
                    [sid |-> sid, client |-> c, conn |-> i, state |-> "Failed"])
               /\ streams' = Append(streams, << >>)
               /\ UNCHANGED engineTransport
          ELSE /\ sessions' = Append(sessions,
                    [sid |-> sid, client |-> c, conn |-> i, state |-> "Open"])
               /\ streams' = Append(streams,
                    << [event |-> "endpoint", sid |-> sid] >>)
               /\ engineTransport' = i
  /\ UNCHANGED <<posts, engineInbox, connectGuard, toolVars>>

\* A close that also cancels the session's upstream calls in flight.
CloseSseAborting(i) ==
  /\ i \in 1..Len(sessions)
  /\ sessions[i].state = "Open"
  /\ sessions' = [sessions EXCEPT ![i].state = "Closed"]
  /\ engineTransport' = 0
  /\ calls' = [k \in 1..Len(calls) |->
                IF calls[k].pc = "awaiting"
                  THEN [calls[k] EXCEPT !.pc = "threw"] ELSE calls[k]]
  /\ UNCHANGED <<streams, posts, engineInbox, connectGuard, returned,
                 upstreamRequests, clock>>

\* The client of stream i disconnects: the transport's close callback runs
\* the engine's close handling, which empties the engine's transport slot.
\* Nothing in the handlers or in callNessie takes part: they hold no
\* reference to the stream and no abort signal.
CloseSse(i) ==
  /\ i \in 1..Len(sessions)
  /\ sessions[i].state = "Open"
  /\ sessions' = [sessions EXCEPT ![i].state = "Closed"]
  /\ engineTransport' = 0
  /\ UNCHANGED <<streams, posts, engineInbox, connectGuard, toolVars>>

\* The body of app.post("/messages"): the status it answers with and the
\* engine's inbox after it.  open: the session the request names is Open;
\* bound: the engine's transport slot.
messagesHandlerChecked(sid, msg, open, bound, inbox) ==
  [status |-> IF open THEN 200 ELSE 404, engineInbox |-> inbox]

messagesHandlerForwarding(sid, msg, open, bound, inbox) ==
  [status |-> 200,
   engineInbox |-> IF bound # 0 THEN Append(inbox, [sid |-> sid, msg |-> msg])
                                ELSE inbox]

messagesHandler(sid, msg, open, bound, inbox) ==
  [status |-> 200, engineInbox |-> inbox]

\* POST /messages?sessionId=sid with body msg.
PostMessages(sid, msg) ==
  /\ Len(posts) < MaxPosts
  /\ LET h == messagesHandler(sid, msg, IsOpen(sid), engineTransport, engineInbox)
     IN /\ engineInbox' = h.engineInbox
        /\ posts' = Append(posts,
             [sid |-> sid, msg |-> msg, sessionState |-> SessionState(sid),
              status |-> h.status,
              delivered |-> h.engineInbox # engineInbox])
  /\ UNCHANGED <<sessions, engineTransport, streams, connectGuard, toolVars>>

\* The handlers as the engine runs them for the session of stream 1, whose
\* client may disconnect at any time.
ToolNext ==
  \/ \E c \in CustomerIds : InvokeGetCustomerAccounts(c)
  \/ \E p \in PayerIds, q \in AccountIds, a \in Amounts : InvokeTransferMoney(p, q, a)
  \/ \E i \in 1..MaxCalls, o \in Outcomes : UpstreamSettles(i, o)
  \/ CloseSse(1)

ToolSpec == ToolInit /\ [][ToolNext]_vars

Next ==
  \/ \E c \in Clients : OpenSse(c)
  \/ \E i \in 1..MaxSessions : CloseSse(i)
  \/ \E sid \in 1..(MaxSessions + 1), m \in Messages : PostMessages(sid, m)

Spec == Init /\ [][Next]_vars

\* ================================================================ claims
Settled(i) == calls[i].pc # "awaiting"
Text(i) == calls[i].content[1].text

\* The number of lines of a text.
LineCount(text) == Cardinality({ k \in 1..Len(text) : text[k] = "\n" }) + 1

\* C1: every message posted for an Open session is delivered to the
\* protocol engine before it is acknowledged; no message of an Open session
\* is acknowledged without having been delivered.
C1_DeliveredBeforeAck ==
  \A k \in 1..Len(posts) :
    (posts[k].sessionState = "Open" /\ posts[k].status = 200)
      => posts[k].delivered

\* C2: every invocation of a handler, for every upstream outcome, ends by
\* returning one envelope holding a single text block; no exception escapes.
C2_OneEnvelopeNoThrow ==
  \A i \in 1..Len(calls) :
    Settled(i) => /\ calls[i].pc = "returned"
                  /\ Len(calls[i].content) = 1
                  /\ calls[i].content[1].type = "text"

\* C3: every POST /messages is answered with 200, whatever the message and
\* whether or not its session exists or is Open; the handler never waits:
\* it can run in every state.
C3_AlwaysAck200 ==
  /\ \A k \in 1..Len(posts) : posts[k].status = 200
  /\ Len(posts) < MaxPosts =>
       \A sid \in 1..(MaxSessions + 1), m \in Messages : ENABLED PostMessages(sid, m)

C3_Witness ==
  /\ \E k \in 1..Len(posts) : posts[k].sessionState = "Unknown" /\ posts[k].status = 200
  /\ \E k \in 1..Len(posts) : posts[k].sessionState = "Closed" /\ posts[k].status = 200

\* C4: callNessie never raises: for every upstream outcome it returns a
\* value, the response body on success, and on failure an error value that
\* carries the upstream's error body when there is one and the error
\* message otherwise.
C4_CallNessieNeverRaises ==
  \A i \in 1..Len(calls) :
    Settled(i) =>
      LET o == calls[i].outcome
          r == calls[i].data
      IN /\ ~r.threw
         /\ o.kind = "2xx" => r.value = o.data
         /\ o.kind = "non2xx" /\ o.errdata # PStr("") =>
              r.value.t = "object" /\ r.value.error = o.errdata
         /\ o.kind = "non2xx" /\ o.errdata = PStr("") =>
              r.value.t = "object" /\ r.value.error = PStr(o.message)
         /\ o.kind = "transport" =>
              r.value.t = "object" /\ r.value.error = PStr(o.message)

C4_Witness ==
  /\ \E i \in 1..Len(calls) : Settled(i) /\ calls[i].outcome.kind = "transport"
  /\ \E i \in 1..Len(calls) : Settled(i) /\ calls[i].outcome.kind = "non2xx"

\* C5: the responses to the invocations are produced in the order in which
\* the requests were received, whatever the order in which the upstream
\* calls complete.
C5_ResponsesInRequestOrder ==
  \A a, b \in 1..Len(returned) : a < b => returned[a] < returned[b]

\* C6: while session a is Open and bound to the protocol engine, no step
\* that leaves it Open (another client opening, failing to open or closing
\* a session) unbinds it from the engine.
C6_SessionsIndependent ==
  [][ \A a \in 1..Len(sessions) :
        (sessions[a].state = "Open" /\ engineTransport = a
           /\ sessions'[a].state = "Open")
          => engineTransport' = a ]_vars

\* C7: a Closed session is released from the engine, and a message posted
\* for a Closed session or for a session id that never existed is a no-op:
\* nothing reaches the engine or a handler, nothing is written on a stream,
\* and the server still accepts requests.
C7_ClosedSessionNoOp ==
  /\ [](\A i \in 1..Len(sessions) :
          sessions[i].state = "Closed" => engineTransport # i)
  /\ [](\A k \in 1..Len(posts) :
          posts[k].sessionState # "Open" => ~posts[k].delivered)
  /\ [][ (Len(posts') > Len(posts) /\ posts'[Len(posts')].sessionState # "Open")
           => /\ engineInbox' = engineInbox
              /\ streams' = streams
              /\ calls' = calls ]_vars
  /\ []((\E k \in 1..Len(posts) : posts[k].sessionState # "Open")
          => /\ Len(sessions) < MaxSessions => \A c \in Clients : ENABLED OpenSse(c)
             /\ Len(posts) < MaxPosts =>
                  \A m \in Messages : ENABLED PostMessages(1, m))

C7_Witness ==
  /\ \E k \in 1..Len(posts) : posts[k].sessionState = "Closed" /\ ~posts[k].delivered
  /\ \E k \in 1..Len(posts) : posts[k].sessionState = "Unknown" /\ ~posts[k].delivered
  /\ engineTransport # 0

\* C8: each connection has at most one Open session, each open stream has
\* exactly one session, and a session id is never assigned again to a
\* session of a different client.
C8_OneSessionPerStream ==
  /\ \A i, j \in 1..Len(sessions) :
       (i # j /\ sessions[i].state = "Open" /\ sessions[j].state = "Open")
         => sessions[i].conn # sessions[j].conn
  /\ \A i \in 1..Len(sessions) :
       sessions[i].state = "Open" =>
         /\ Cardinality({ j \in 1..Len(sessions) : sessions[j].conn = sessions[i].conn }) = 1
         /\ Len(streams[i]) = 1 /\ streams[i][1].sid = sessions[i].sid
  /\ \A i, j \in 1..Len(sessions) :
       (i < j /\ sessions[i].sid = sessions[j].sid)
         => sessions[i].client = sessions[j].client

\* With the guarded connect, a later session is Open only if the earlier
\* one was closed before it was opened.
C8_Witness ==
  /\ connectGuard
  /\ \E i, j \in 1..Len(sessions) :
       /\ i < j
       /\ sessions[i].state = "Closed"
       /\ sessions[j].state = "Open"
       /\ sessions[i].client # sessions[j].client

\* C9: for every upstream failure get_customer_accounts returns a text that
\* begins with "Error:" and transfer_money a text that begins with
\* "Failed:", and the text contains the serialized upstream error.
C9_FailurePrefix ==
  \A i \in 1..Len(calls) :
    (Settled(i) /\ Failed(calls[i].outcome)) =>
      /\ calls[i].pc = "returned"
      /\ Text(i)[1] = IF calls[i].tool = "get_customer_accounts"
                        THEN "Error:" ELSE "Failed:"
      /\ LET o == calls[i].outcome
             e == IF Truthy(o.errdata) THEN o.errdata ELSE PStr(o.message)
         IN \E k \in 1..Len(Text(i)) : Text(i)[k] = JSONstringify(e)

\* C10: for a successful response that is a sequence of N account records
\* get_customer_accounts returns a header line followed by exactly N
\* formatted account lines when N > 0, and a "no accounts found" text, not
\* the header, when N = 0.
C10_AccountLines ==
  \A i \in 1..Len(calls) :
    (/\ Settled(i)
     /\ calls[i].tool = "get_customer_accounts"
     /\ calls[i].outcome.kind = "2xx"
     /\ calls[i].outcome.data.t = "array") =>
      LET n == Len(calls[i].outcome.data.items) IN
      /\ calls[i].pc = "returned"
      /\ n > 0 => /\ Text(i)[1] = "Accounts found:"
                  /\ LineCount(Text(i)) = n + 1
                  /\ \A k \in 1..n :
                       Text(i)[2 * k + 1] = FormatAccount(calls[i].outcome.data.items[k])
      /\ n = 0 => Text(i)[1] # "Accounts found:"

\* JSON.stringify of a response body that is a string or an object.
BodyDump(v) ==
  CASE v.t = "string" -> "\"" \o v.s \o "\""
    [] v.t = "object" ->
         "{" \o (IF v.error.t = "undefined" THEN ""
                 ELSE "\"error\":" \o JSONstringify(v.error))
             \o (IF v.error.t # "undefined" /\ v.message.t # "undefined" THEN "," ELSE "")
             \o (IF v.message.t = "undefined" THEN ""
                 ELSE "\"message\":" \o JSONstringify(v.message))
             \o "}"
    [] OTHER -> "null"

\* The failure text of a handler: "Error: ..." / "Transfer Failed: ...".
IsFailureText(i) ==
  /\ calls[i].pc = "returned"
  /\ \/ Text(i)[1] = "Error:"
     \/ Len(Text(i)) >= 3 /\ Text(i)[1] = "Transfer" /\ Text(i)[3] = "Failed:"

RequestsOf(i) == { k \in 1..Len(upstreamRequests) : upstreamRequests[k].call = i }

\* C15: when get_customer_accounts gets a successful response whose payload
\* is present but is not a sequence (an object, a string), it returns an
\* envelope whose text is the raw serialized dump of the payload.
C15_NonSequenceDump ==
  \A i \in 1..Len(calls) :
    (/\ Settled(i)
     /\ calls[i].tool = "get_customer_accounts"
     /\ calls[i].outcome.kind = "2xx"
     /\ calls[i].outcome.data.t \in { "object", "string" }
     /\ calls[i].outcome.data # JString("")) =>
      /\ calls[i].pc = "returned"
      /\ \E k \in 1..Len(Text(i)) : Text(i)[k] = BodyDump(calls[i].outcome.data)

\* C16: every invocation that reaches a handler issues exactly one upstream
\* request, whatever the outcome: no retry, no second request.
C16_OneRequestPerInvocation ==
  /\ \A i \in 1..Len(calls) : Cardinality(RequestsOf(i)) = 1
  /\ Len(upstreamRequests) = Len(calls)

C16_Witness ==
  /\ \E i \in 1..Len(calls) :
       Settled(i) /\ calls[i].outcome.kind = "non2xx" /\ Cardinality(RequestsOf(i)) = 1
  /\ \E i \in 1..Len(calls) :
       Settled(i) /\ calls[i].outcome.kind = "transport" /\ Cardinality(RequestsOf(i)) = 1

\* C17: a handler returns its failure text if and only if the upstream call
\* failed: a 2xx response is never reported as a failure and a failed call
\* is never reported as a success.
C17_FailureTextIffFailed ==
  \A i \in 1..Len(calls) :
    Settled(i) => (IsFailureText(i) <=> Failed(calls[i].outcome))

\* C12: the request body of transfer_money carries a transaction_date equal
\* to today's date on the server's calendar, in YYYY-MM-DD form, at every
\* time of day, also when the UTC date and the local date differ.
C12_TransactionDateIsToday ==
  \A k \in 1..Len(upstreamRequests) :
    upstreamRequests[k].method = "POST" =>
      upstreamRequests[k].data.transaction_date = LocalDate(clock)

InFlight(i) == i \in 1..Len(calls) /\ calls[i].pc = "awaiting"

StreamOf(sid) ==
  IF \E j \in 1..Len(sessions) : sessions[j].sid = sid
    THEN streams[CHOOSE j \in 1..Len(sessions) : sessions[j].sid = sid]
    ELSE << >>

\* The request of post k has reached the engine or has been answered on the
\* stream of its session.
Answered(k) ==
  \/ posts[k].delivered
  \/ \E e \in 1..Len(StreamOf(posts[k].sid)) :
       StreamOf(posts[k].sid)[e].event = "message"

\* C11: a tools/call for a name that is not registered, posted for an Open
\* session, gets a not-found envelope back on the stream; no upstream
\* request is made and nothing is thrown.
C11_UnknownToolNotFound ==
  \A k \in 1..Len(posts) :
    (/\ posts[k].sessionState = "Open"
     /\ posts[k].msg.method = "tools/call"
     /\ posts[k].msg.name \notin RegisteredTools) =>
      /\ Answered(k)
      /\ upstreamRequests = << >>
      /\ posts[k].status = 200

\* C14: a tools/call for a registered tool whose arguments fail the schema,
\* posted for an Open session, gets an envelope with an error text back on
\* the stream; the handler is not run and no upstream request is issued.
C14_InvalidArgumentsEnvelope ==
  \A k \in 1..Len(posts) :
    (/\ posts[k].sessionState = "Open"
     /\ posts[k].msg.method = "tools/call"
     /\ posts[k].msg.name \in RegisteredTools
     /\ ~ValidArguments(posts[k].msg.name, posts[k].msg.arguments)) =>
      /\ Answered(k)
      /\ calls = << >>
      /\ upstreamRequests = << >>

====
